---- MODULE Spec2Model ----
(***************************************************************************)
(* Model of src/src/Cordinator.py: the bounded conversation Memory, the    *)
(* two backend-calling agents (LLMIntentAgent.classify and                  *)
(* LLMReplyAgent.create_reply) and LLMCoordinator.ask, driven as in         *)
(* src/examples/Sample_run.py (a list of messages sent one after another).  *)
(*                                                                         *)
(* Texts are modelled as values, not as character strings:                  *)
(*   - a message or reply text is a pair <<kind, n>>;                       *)
(*   - the rendering get_context builds is the sequence of the pieces the   *)
(*     code concatenates: Line(role, content) for "role: content" and NL    *)
(*     for "\n";                                                            *)
(*   - the JSON text of the classification response is a record saying      *)
(*     whether it parses, whether it is an object, and which keys it has.   *)
(* The program never inspects a reply text and never branches on the        *)
(* intent or urgency value, so one symbolic successful reply per request    *)
(* and a few classification documents cover its behaviour.                  *)
(***************************************************************************)
EXTENDS Integers, Sequences, FiniteSets, TLC

(* ------------------------------ bounds --------------------------------- *)
\* small configured values of max_history, 0..MaxHistory, beside the default
MaxHistory == 2
\* number of ask calls of the serialized driver
MaxAsks == 4
\* number of ask calls on a Coordinator shared by the two callers
MaxShared == 2
\* number of direct Memory.add calls in the memory specification
MaxAdds == 6

(* ------------------------- program constants --------------------------- *)
\* Memory.max_history default
DefaultMaxHistory == 20
\* the window of get_context: self.messages[-5:]
ContextWindow == 5

\* the threads that may call ask on the one Coordinator; a caller that
\* serializes its calls is the single thread Driver
Callers == {1, 2}
Driver == 1
Roles == {"user", "agent"}
\* the message texts of the general specifications: the program never
\* compares two texts, so two of them tell a repeated message from a new one
Texts == {<<"msg", 1>>, <<"msg", 2>>}
NoText == <<"none", 0>>
\* "Sorry, I am having trouble connecting to my services right now."
Fallback == <<"fallback", 0>>
\* the text the backend generates, on success, for the request about message m
ReplyTo(m) == <<"reply", m[2]>>

Min(a, b) == IF a < b THEN a ELSE b
Max(a, b) == IF a > b THEN a ELSE b

VARIABLES
    max_history,    \* Memory.max_history
    messages,       \* Memory.messages
    clock,          \* number of datetime.now() readings so far (logical time)
    added,          \* history: every turn ever appended, in append order
    out,            \* value the latest direct Memory call returned (<<>> for add's None)
    lastOp,         \* the latest direct Memory call
    serialized,     \* TRUE when the caller sends one ask at a time
    script,         \* per call still to come: the messages the driver may send
    nasks,          \* number of ask calls started
    pc,             \* per caller: position inside ask
    message,        \* per caller: ask's parameter
    classification, \* per caller: ask's locals (intent, urgency)
    context,        \* per caller: ask's local context
    final_output,   \* per caller: the value ask returned
    calls,          \* per caller: backend calls of the current ask, in order
    cresp,          \* per caller: what the backend answered to the classify call
    rresp           \* per caller: what the backend answered to the reply call

memVars == <<max_history, messages, clock, added>>
directVars == <<out, lastOp>>
askVars == <<serialized, script, nasks, pc, message, classification, context,
             final_output, calls, cresp, rresp>>
vars == <<max_history, messages, clock, added, out, lastOp, serialized, script,
          nasks, pc, message, classification, context, final_output, calls,
          cresp, rresp>>

(* ------------------------------ Memory --------------------------------- *)
\* Python's s[start:] : a negative start counts from the end and is clamped
\* at 0, a non-negative start is clamped at len(s).  Note that -0 is 0.
SliceFrom(s, start) ==
    LET lo == IF start < 0 THEN Max(Len(s) + start, 0) ELSE Min(start, Len(s))
    IN  SubSeq(s, lo + 1, Len(s))

Turn(role, content, now) == [role |-> role, content |-> content, time |-> now]

\* faulty variant: the truncation keeps the oldest max_history turns (messages[:max_history])
add_keep_oldest(msgs, mh, role, content, now) ==
    LET appended == Append(msgs, Turn(role, content, now))
    IN  IF Len(appended) > mh THEN SubSeq(appended, 1, Min(mh, Len(appended)))
        ELSE appended

\* Memory.add: the new value of self.messages
add(msgs, mh, role, content, now) ==
    LET appended == Append(msgs, Turn(role, content, now))
    IN  IF Len(appended) > mh THEN SliceFrom(appended, -mh) ELSE appended

NL == <<"\n">>
Line(role, content) == <<role, ": ", content>>

\* the loop of get_context over the turns ms: out += f"{role}: {content}\n"
RECURSIVE render(_, _)
render(acc, ms) ==
    IF ms = <<>> THEN acc
    ELSE render(acc \o <<Line(Head(ms).role, Head(ms).content), NL>>, Tail(ms))

\* faulty variant: the window is one turn short (messages[-4:])
get_context_short(msgs) == render(<<>>, SliceFrom(msgs, -(ContextWindow - 1)))

\* Memory.get_context
get_context(msgs) == render(<<>>, SliceFrom(msgs, -ContextWindow))

(* ---------------------- direct Memory operations ----------------------- *)
MemoryAdd(role, content) ==
    /\ clock < MaxAdds
    /\ messages' = add(messages, max_history, role, content, clock + 1)
    /\ added' = Append(added, Turn(role, content, clock + 1))
    /\ clock' = clock + 1
    /\ lastOp' = "add"
    /\ out' = <<>>
    /\ UNCHANGED max_history
    /\ UNCHANGED askVars

MemoryGetContext ==
    /\ out' = get_context(messages)
    /\ lastOp' = "get_context"
    /\ UNCHANGED memVars
    /\ UNCHANGED askVars

InitAsk(ser, scr) ==
    /\ serialized = ser
    /\ script = scr
    /\ nasks = 0
    /\ pc = [c \in Callers |-> "idle"]
    /\ message = [c \in Callers |-> NoText]
    /\ classification = [c \in Callers |-> <<"none", "none">>]
    /\ context = [c \in Callers |-> <<>>]
    /\ final_output = [c \in Callers |->
                          [intent |-> "none", urgency |-> "none", reply |-> NoText]]
    /\ calls = [c \in Callers |-> <<>>]
    /\ cresp = [c \in Callers |-> [kind |-> "none"]]
    /\ rresp = [c \in Callers |-> [kind |-> "none"]]

HistoryChoices == (0..MaxHistory) \cup {DefaultMaxHistory}

(* ------------------------------ backend -------------------------------- *)
\* What generate_content may do for the classification request: raise, or
\* return a response whose text is not JSON, is JSON but no object, or is
\* an object with some of the keys "intent" and "urgency".
BackendPairs == {<<"refund", "high">>, <<"spam", "critical">>}
JsonDocs ==
    {[syntax |-> "invalid", keys |-> {}, intent |-> "none", urgency |-> "none"],
     [syntax |-> "array", keys |-> {}, intent |-> "none", urgency |-> "none"]}
    \cup {[syntax |-> "object", keys |-> {"intent"}, intent |-> i, urgency |-> "none"] :
            i \in {"refund"}}
    \cup {[syntax |-> "object", keys |-> {"intent", "urgency"}, intent |-> v[1], urgency |-> v[2]] :
            v \in BackendPairs}
ClassifyResponses ==
    {[kind |-> "raise"]} \cup {[kind |-> "text", text |-> d] : d \in JsonDocs}
\* What generate_content may do for the reply request about message m
ReplyResponses(m) == {[kind |-> "raise"], [kind |-> "text", text |-> ReplyTo(m)]}

(* ------------------------- LLMIntentAgent ------------------------------ *)
\* A computed value or a raised exception
Ok(v) == [ok |-> TRUE, val |-> v]
Exc == [ok |-> FALSE, val |-> <<"exception", "exception">>]

\* json.loads: ValueError on text that is not JSON, else the parsed value
json_loads(text) ==
    IF text.syntax = "invalid" THEN [ok |-> FALSE, type |-> "none", items |-> <<>>]
    ELSE IF text.syntax = "array" THEN [ok |-> TRUE, type |-> "list", items |-> <<>>]
    ELSE [ok |-> TRUE, type |-> "dict",
          items |-> [k \in text.keys |-> IF k = "intent" THEN text.intent ELSE text.urgency]]

\* result[key]: TypeError on a list, KeyError on a missing key
getitem(value, key) ==
    IF value.type = "dict" /\ key \in DOMAIN value.items
    THEN [ok |-> TRUE, val |-> value.items[key]]
    ELSE [ok |-> FALSE, val |-> "none"]

\* the body of classify's try block
classify_try(resp) ==
    IF resp.kind = "raise" THEN Exc
    ELSE LET result == json_loads(resp.text)
         IN  IF ~result.ok THEN Exc
             ELSE LET i == getitem(result, "intent")
                      u == getitem(result, "urgency")
                  IN  IF i.ok /\ u.ok THEN Ok(<<i.val, u.val>>) ELSE Exc

\* faulty variant: the except clause is missing, a failure propagates
classify_uncaught(resp) == classify_try(resp)

\* faulty variant: the two values are returned in the wrong order
classify_swapped(resp) ==
    LET r == classify_try(resp)
    IN  IF r.ok THEN Ok(<<r.val[2], r.val[1]>>) ELSE Ok(<<"error", "low">>)

\* LLMIntentAgent.classify: try ... except Exception: return "error", "low"
classify(resp) ==
    LET r == classify_try(resp)
    IN  IF r.ok THEN r ELSE Ok(<<"error", "low">>)

(* -------------------------- LLMReplyAgent ------------------------------ *)
\* LLMReplyAgent.create_reply: response.text, or the fallback on an exception
create_reply(resp) ==
    IF resp.kind = "raise" THEN Ok(Fallback) ELSE Ok(resp.text)

(* -------------------------- LLMCoordinator ----------------------------- *)
InFlight(c) == pc[c] \in {"classify", "reply"}

\* ask, up to the backend call inside classify: memory.add("user", message),
\* then generate_content is invoked and the caller waits for it
AskStart(c) ==
    /\ pc[c] \in {"idle", "done"}
    /\ script # <<>>
    /\ serialized => c = Driver
    /\ \E m \in Head(script) :
           /\ message' = [message EXCEPT ![c] = m]
           /\ messages' = add(messages, max_history, "user", m, clock + 1)
           /\ added' = Append(added, Turn("user", m, clock + 1))
    /\ clock' = clock + 1
    /\ script' = Tail(script)
    /\ nasks' = nasks + 1
    /\ calls' = [calls EXCEPT ![c] = <<"classify">>]
    /\ classification' = [classification EXCEPT ![c] = <<"none", "none">>]
    /\ context' = [context EXCEPT ![c] = <<>>]
    /\ final_output' = [final_output EXCEPT ![c] =
                           [intent |-> "none", urgency |-> "none", reply |-> NoText]]
    /\ cresp' = [cresp EXCEPT ![c] = [kind |-> "none"]]
    /\ rresp' = [rresp EXCEPT ![c] = [kind |-> "none"]]
    /\ pc' = [pc EXCEPT ![c] = "classify"]
    /\ UNCHANGED <<max_history, serialized>>
    /\ UNCHANGED directVars

\* faulty variant: a failed classification is retried
ClassifyReturn_retry(c) ==
    /\ pc[c] = "classify"
    /\ Len(calls[c]) < 3
    /\ \E resp \in ClassifyResponses :
        LET r == classify(resp)
        IN  /\ cresp' = [cresp EXCEPT ![c] = resp]
            /\ IF classify_try(resp).ok
               THEN /\ classification' = [classification EXCEPT ![c] = r.val]
                    /\ context' = [context EXCEPT ![c] = get_context(messages)]
                    /\ calls' = [calls EXCEPT ![c] = Append(@, "reply")]
                    /\ pc' = [pc EXCEPT ![c] = "reply"]
               ELSE /\ calls' = [calls EXCEPT ![c] = Append(@, "classify")]
                    /\ UNCHANGED <<classification, context, pc>>
    /\ UNCHANGED <<serialized, script, nasks, message, final_output, rresp>>
    /\ UNCHANGED memVars
    /\ UNCHANGED directVars

\* faulty variant: the context is read without the newest turn, as it was before
\* this call's user turn was appended
ClassifyReturn_early_context(c) ==
    /\ pc[c] = "classify"
    /\ \E resp \in ClassifyResponses :
        LET r == classify(resp)
        IN  /\ cresp' = [cresp EXCEPT ![c] = resp]
            /\ classification' = [classification EXCEPT ![c] = r.val]
            /\ context' = [context EXCEPT ![c] =
                              get_context(SubSeq(messages, 1, Len(messages) - 1))]
            /\ calls' = [calls EXCEPT ![c] = Append(@, "reply")]
            /\ pc' = [pc EXCEPT ![c] = "reply"]
    /\ UNCHANGED <<serialized, script, nasks, message, final_output, rresp>>
    /\ UNCHANGED memVars
    /\ UNCHANGED directVars

\* ask, from the return of classify's backend call to the backend call inside
\* create_reply: classify returns, context = memory.get_context(), then
\* generate_content is invoked and the caller waits for it
ClassifyReturn(c) ==
    /\ pc[c] = "classify"
    /\ \E resp \in ClassifyResponses :
        LET r == classify(resp)
        IN  /\ cresp' = [cresp EXCEPT ![c] = resp]
            /\ IF r.ok
               THEN /\ classification' = [classification EXCEPT ![c] = r.val]
                    /\ context' = [context EXCEPT ![c] = get_context(messages)]
                    /\ calls' = [calls EXCEPT ![c] = Append(@, "reply")]
                    /\ pc' = [pc EXCEPT ![c] = "reply"]
               ELSE \* the exception leaves ask
                    /\ pc' = [pc EXCEPT ![c] = "raised"]
                    /\ UNCHANGED <<classification, context, calls>>
    /\ UNCHANGED <<serialized, script, nasks, message, final_output, rresp>>
    /\ UNCHANGED memVars
    /\ UNCHANGED directVars

\* faulty variant: a call whose reply generation failed returns the fallback
\* without storing the agent turn
ReplyReturn_skip_store(c) ==
    /\ pc[c] = "reply"
    /\ \E resp \in ReplyResponses(message[c]) :
        LET r == create_reply(resp)
        IN  /\ rresp' = [rresp EXCEPT ![c] = resp]
            /\ final_output' = [final_output EXCEPT ![c] =
                   [intent |-> classification[c][1],
                    urgency |-> classification[c][2],
                    reply |-> r.val]]
            /\ IF resp.kind = "raise"
               THEN UNCHANGED <<messages, added, clock>>
               ELSE /\ messages' = add(messages, max_history, "agent", r.val, clock + 1)
                    /\ added' = Append(added, Turn("agent", r.val, clock + 1))
                    /\ clock' = clock + 1
            /\ pc' = [pc EXCEPT ![c] = "done"]
    /\ UNCHANGED <<max_history, serialized, script, nasks, message, classification,
                   context, calls, cresp>>
    /\ UNCHANGED directVars

\* ask, from the return of create_reply's backend call to its own return:
\* final_output is built, memory.add("agent", reply), return final_output
ReplyReturn(c) ==
    /\ pc[c] = "reply"
    /\ \E resp \in ReplyResponses(message[c]) :
        LET r == create_reply(resp)
        IN  /\ rresp' = [rresp EXCEPT ![c] = resp]
            /\ IF r.ok
               THEN /\ final_output' = [final_output EXCEPT ![c] =
                           [intent |-> classification[c][1],
                            urgency |-> classification[c][2],
                            reply |-> r.val]]
                    /\ messages' = add(messages, max_history, "agent", r.val, clock + 1)
                    /\ added' = Append(added, Turn("agent", r.val, clock + 1))
                    /\ clock' = clock + 1
                    /\ pc' = [pc EXCEPT ![c] = "done"]
               ELSE \* the exception leaves ask
                    /\ pc' = [pc EXCEPT ![c] = "raised"]
                    /\ UNCHANGED <<final_output, messages, added, clock>>
    /\ UNCHANGED <<max_history, serialized, script, nasks, message, classification,
                   context, calls, cresp>>
    /\ UNCHANGED directVars

(* --------------------------- specifications ---------------------------- *)
InitMem(mh) ==
    /\ max_history = mh
    /\ messages = <<>>
    /\ clock = 0
    /\ added = <<>>
    /\ out = <<>>
    /\ lastOp = "init"

\* a Coordinator whose memory was configured with any of the history sizes,
\* and one driver that sends MaxAsks messages in turn, each any of Texts
\* (the loop of Sample_run.main)
Init ==
    /\ \E mh \in HistoryChoices : InitMem(mh)
    /\ InitAsk(TRUE, [i \in 1..MaxAsks |-> Texts])

Next ==
    \/ \E c \in Callers : AskStart(c)
    \/ \E c \in Callers : ClassifyReturn(c)
    \/ \E c \in Callers : ReplyReturn(c)

Spec == Init /\ [][Next]_vars

\* the same Coordinator shared by two callers, which either serialize their
\* calls or do not: an ask in flight waits at its two backend calls, where
\* the other caller may run
InitShared ==
    /\ \E mh \in HistoryChoices : InitMem(mh)
    /\ \E ser \in BOOLEAN : InitAsk(ser, [i \in 1..MaxShared |-> Texts])

SpecShared == InitShared /\ [][Next]_vars

\* Memory alone, called directly
InitMemory ==
    /\ \E mh \in HistoryChoices : InitMem(mh)
    /\ InitAsk(TRUE, <<>>)

NextMemory ==
    \/ \E role \in Roles, content \in Texts : MemoryAdd(role, content)
    \/ MemoryGetContext

SpecMemory == InitMemory /\ [][NextMemory]_vars

\* the scenario of the default Coordinator: LLMCoordinator() builds Memory()
\* with max_history = 20, and one caller sends 11 distinct messages in turn
ScenarioScript == [i \in 1..11 |-> {<<"msg", i>>}]

InitScenario ==
    /\ InitMem(DefaultMaxHistory)
    /\ InitAsk(TRUE, ScenarioScript)

SpecScenario == InitScenario /\ [][Next]_vars

(* ------------------------------ claims --------------------------------- *)
Last(s) == s[Len(s)]
\* the newest n elements of s, oldest first
Newest(s, n) == [i \in 1..Min(n, Len(s)) |-> s[Len(s) - Min(n, Len(s)) + i]]
\* "role: content\n" for each turn of ts, in order
Terminated(ts) ==
    [i \in 1..(2 * Len(ts)) |->
        IF i % 2 = 1 THEN Line(ts[(i + 1) \div 2].role, ts[(i + 1) \div 2].content)
        ELSE NL]
\* "role: content" for each turn of ts, in order, with "\n" between two turns
Joined(ts) ==
    [i \in 1..(IF ts = <<>> THEN 0 ELSE 2 * Len(ts) - 1) |->
        IF i % 2 = 1 THEN Line(ts[(i + 1) \div 2].role, ts[(i + 1) \div 2].content)
        ELSE NL]
Idle == \A c \in Callers : ~InFlight(c)
IntentEnum == {"refund", "cancellation", "billing", "general_help", "general", "error"}
UrgencyEnum == {"low", "medium", "high"}
\* the classification call failed: the backend raised, or its text is not a
\* JSON object holding both keys
ClassifyFailed(resp) ==
    \/ resp.kind = "raise"
    \/ resp.text.syntax # "object"
    \/ ~({"intent", "urgency"} \subseteq resp.text.keys)

\* C1: for every configured max_history, in every state between operations
\* the number of stored turns is at most max_history.
C1_LengthBounded == Len(messages) <= max_history

\* C2: between serialized ask calls, after N calls on an initially empty
\* memory, the memory length is min(2N, max_history).
C2_LengthAfterAsks == Idle => Len(messages) = Min(2 * nasks, max_history)

\* C3: ask never raises; the response it returns has exactly the fields
\* intent, urgency and reply; a failed classification call gives
\* ("error", "low") and a failed reply call gives the fallback reply.
C3_FailuresAbsorbed ==
    \A c \in Callers :
        /\ pc[c] # "raised"
        /\ pc[c] = "done" =>
            /\ DOMAIN final_output[c] = {"intent", "urgency", "reply"}
            /\ ClassifyFailed(cresp[c]) =>
                /\ final_output[c].intent = "error"
                /\ final_output[c].urgency = "low"
            /\ rresp[c].kind = "raise" => final_output[c].reply = Fallback

\* C3 witness: a call whose two backend calls both raised has returned
\* {error, low, fallback}.
C3_Witness ==
    \E c \in Callers :
        /\ pc[c] = "done"
        /\ cresp[c].kind = "raise"
        /\ rresp[c].kind = "raise"
        /\ final_output[c] = [intent |-> "error", urgency |-> "low", reply |-> Fallback]

\* C4 as stated: get_context returns the newest min(5, length) turns, oldest
\* first, as "role: content" joined by newlines (a newline between two
\* consecutive turns only), and the empty string on an empty memory.
C4_JoinedByNewlines ==
    lastOp = "get_context" => out = Joined(Newest(messages, ContextWindow))

\* C4 amended: get_context returns the newest min(5, length) turns, oldest
\* first, each as "role: content" followed by a newline (the last one
\* too), the empty string on an empty memory, and leaves the turns unchanged.
C4_NewlineTerminated ==
    [][lastOp' = "get_context" =>
            /\ out' = Terminated(Newest(messages, ContextWindow))
            /\ messages' = messages]_vars

\* C4 witness: get_context has returned five turns of a longer memory.
C4_Witness ==
    /\ lastOp = "get_context"
    /\ Len(messages) > ContextWindow
    /\ Len(out) = 2 * ContextWindow

\* C5: the stored turns are exactly the newest min(k, max_history) of the k
\* turns ever added, in insertion order and unaltered.
C5_NewestKept == messages = Newest(added, max_history)

\* C6 as stated: with max_history = 20, after 11 serialized ask calls the
\* memory holds 20 turns and the oldest is the 2nd call's agent reply (the
\* 4th turn ever appended).
C6_OldestIsSecondReply ==
    (nasks = 11 /\ pc[Driver] = "done") =>
        /\ Len(messages) = DefaultMaxHistory
        /\ messages[1] = added[4]

\* C6 amended: with max_history = 20, after 11 serialized ask calls the
\* memory holds 20 turns and the oldest is the 2nd call's user message (the
\* 3rd turn ever appended).
C6_OldestIsSecondUser ==
    (nasks = 11 /\ pc[Driver] = "done") =>
        /\ Len(messages) = DefaultMaxHistory
        /\ messages[1] = added[3]
        /\ messages[1].role = "user"
        /\ messages[1].content = <<"msg", 2>>

\* C6 witness: the 11th call has returned.
C6_Witness == nasks = 11 /\ pc[Driver] = "done" /\ Len(added) = 22

C8_InEnumeration ==
    \A c \in Callers :
        pc[c] = "done" =>
            /\ final_output[c].intent \in IntentEnum
            /\ final_output[c].urgency \in UrgencyEnum

\* C8 amended: the returned (intent, urgency) is ("error", "low") when the
\* classification call failed, and otherwise the two values of the
\* backend's JSON object, passed through as they are.
C8_SentinelOrBackendValue ==
    \A c \in Callers :
        pc[c] = "done" =>
            IF ClassifyFailed(cresp[c])
            THEN <<final_output[c].intent, final_output[c].urgency>> = <<"error", "low">>
            ELSE /\ final_output[c].intent = cresp[c].text.intent
                 /\ final_output[c].urgency = cresp[c].text.urgency

\* C8 witness: a call has returned an intent outside the enumeration.
C8_Witness ==
    \E c \in Callers :
        /\ pc[c] = "done"
        /\ final_output[c].intent = "spam"
        /\ final_output[c].urgency = "critical"

\* C9: with serialized calls the roles alternate user, agent in append
\* order, no two user turns are adjacent in memory, at most one call is in
\* flight and a context read ends with the call's own user turn.
C9_SerializedAlternates ==
    serialized =>
        /\ \A i \in 1..Len(added) :
               added[i].role = IF i % 2 = 1 THEN "user" ELSE "agent"
        /\ \A i \in 1..(Len(messages) - 1) :
               ~(messages[i].role = "user" /\ messages[i + 1].role = "user")
        /\ Cardinality({c \in Callers : InFlight(c)}) <= 1
        /\ \A c \in Callers :
               pc[c] = "reply" =>
                   /\ context[c][Len(context[c]) - 1] = Line("user", message[c])
                   /\ \A i \in 1..(Len(context[c]) - 2) :
                          (i % 2 = 1 /\ context[c][i][1] = "user")
                              => context[c][i + 2][1] = "agent"

\* C9 witness: with two calls in flight, two user turns are adjacent in
\* memory and the context of one call ends with the other call's message.
C9_Witness ==
    /\ ~serialized
    /\ \E i \in 1..(Len(messages) - 1) :
           messages[i].role = "user" /\ messages[i + 1].role = "user"
    /\ \E c, d \in Callers :
           /\ c # d
           /\ pc[c] = "reply"
           /\ InFlight(d)
           /\ message[c] # message[d]
           /\ context[c][Len(context[c]) - 1] = Line("user", message[d])
           /\ context[c][Len(context[c]) - 3] = Line("user", message[c])

\* C10: every ask calls the backend once for classification and then once
\* for the reply, whatever the classification call did; no call is repeated.
C10_TwoCallsInOrder ==
    \A c \in Callers :
        /\ pc[c] = "classify" => calls[c] = <<"classify">>
        /\ pc[c] \in {"reply", "done"} => calls[c] = <<"classify", "reply">>
        /\ pc[c] = "idle" => calls[c] = <<>>
        /\ pc[c] # "raised"

\* C10 witness: a call whose classification call raised and whose reply call
\* raised has returned after exactly the two calls.
C10_Witness ==
    \E c \in Callers :
        /\ pc[c] = "done"
        /\ ClassifyFailed(cresp[c])
        /\ rresp[c].kind = "raise"
        /\ calls[c] = <<"classify", "reply">>
        /\ nasks >= 2

====
